---- MODULE Spec2Model ----
(***************************************************************************)
(* A model of oneinfra's Cluster aggregate (package cluster) and of the    *)
(* NodeJoinRequest API object (apis/node/v1alpha1).                        *)
(*                                                                         *)
(* Strings are sequences of one-character strings, IP addresses and masks  *)
(* are sequences of bytes (0..255) of the length the Go value has, and a   *)
(* big.Int is its minimal big-endian byte sequence, so that parsing,       *)
(* formatting and the byte slicing in requestVPNIP are computed the way    *)
(* the Go code computes them.                                              *)
(***************************************************************************)
EXTENDS Integers, Sequences, FiniteSets, TLC

VARIABLES
    cluster,    \* the *Cluster being operated on, or NilPtr before NewCluster
    result,     \* what the last call returned (or that it panicked)
    alloc,      \* requestVPNIP as a function of (CIDR, peer count)
    procs,      \* the goroutines calling GenerateVPNPeer concurrently
    njr,        \* the persisted NodeJoinRequest
    recon,      \* the authority's reconciliation pass over njr
    clusterMap, \* a Map of clusters and what Map.Specs returned for it
    stored      \* the persisted cluster object with its version token

vars == <<cluster, result, alloc, procs, njr, recon, clusterMap, stored>>

\* a nil error, a failed key generation
Nil == "nil"
\* a nil pointer
NilPtr == [nil |-> TRUE]

(***************************************************************************)
(* Bounds of the model.                                                    *)
(***************************************************************************)
\* GenerateVPNPeer is not called on a cluster that already holds MaxPeers.
MaxPeers == 4
\* requestVPNIP as a pure function is applied to peer counts 0..MaxCount.
MaxCount == 5
\* the reconcilers that mutate one persisted cluster
MaxWorkers == 2

(***************************************************************************)
(* Sequences and bytes.                                                    *)
(***************************************************************************)
IPv4len == 4
IPv6len == 16

Drop(s, k) == IF k >= Len(s) THEN <<>> ELSE SubSeq(s, k + 1, Len(s))
\* <<F(1), ..., F(k)>>, built element by element
RECURSIVE Tabulate(_, _)
Tabulate(F(_), k) == IF k = 0 THEN <<>> ELSE Append(Tabulate(F, k - 1), F(k))

Zeros(k) == Tabulate(LAMBDA i : 0, k)
isZeros(b) == \A i \in 1..Len(b) : b[i] = 0
allFF(b) == \A i \in 1..Len(b) : b[i] = 255

RECURSIVE BitAnd(_, _)
BitAnd(a, b) ==
    IF a = 0 \/ b = 0 THEN 0
    ELSE (a % 2) * (b % 2) + 2 * BitAnd(a \div 2, b \div 2)

RECURSIVE Pow2(_)
Pow2(k) == IF k = 0 THEN 1 ELSE 2 * Pow2(k - 1)

(***************************************************************************)
(* math/big: an Int is kept as Bytes() returns it, big-endian without      *)
(* leading zero bytes (the empty sequence is 0).                           *)
(***************************************************************************)
RECURSIVE StripZeros(_)
StripZeros(b) ==
    IF b = <<>> THEN <<>>
    ELSE IF b[1] = 0 THEN StripZeros(Tail(b)) ELSE b

SetBytes(b) == StripZeros(b)

RECURSIVE NewInt(_)
NewInt(k) == IF k = 0 THEN <<>> ELSE Append(NewInt(k \div 256), k % 256)

\* x + k for a big.Int x and a small non-negative integer k
RECURSIVE AddSmall(_, _)
AddSmall(x, k) ==
    IF k = 0 THEN x
    ELSE IF x = <<>> THEN NewInt(k)
    ELSE LET s == x[Len(x)] + k
         IN  Append(AddSmall(SubSeq(x, 1, Len(x) - 1), s \div 256), s % 256)

(***************************************************************************)
(* net.IP, net.IPMask, net.IPNet.  An IPNet is [IP |-> bytes, Mask |->     *)
(* bytes]; a nil IP is the empty sequence.                                 *)
(***************************************************************************)
v4InV6Prefix == Zeros(10) \o <<255, 255>>

To4(ip) ==
    IF Len(ip) = IPv4len THEN ip
    ELSE IF Len(ip) = IPv6len /\ isZeros(SubSeq(ip, 1, 10)) /\ ip[11] = 255 /\ ip[12] = 255
         THEN SubSeq(ip, 13, 16)
         ELSE <<>>

To16(ip) ==
    IF Len(ip) = IPv4len THEN v4InV6Prefix \o ip
    ELSE IF Len(ip) = IPv6len THEN ip
    ELSE <<>>

\* CIDRMask(ones, bits): ones 1-bits followed by 0s, bits/8 bytes long
CIDRMask(ones, bits) ==
    Tabulate(LAMBDA i : IF ones >= 8 * i THEN 255
                         ELSE IF ones <= 8 * (i - 1) THEN 0
                         ELSE 256 - Pow2(8 * i - ones),
             bits \div 8)

\* IP.Mask(mask)
IPMask(ip, mask) ==
    LET m  == IF Len(mask) = IPv6len /\ Len(ip) = IPv4len /\ allFF(SubSeq(mask, 1, 12))
              THEN SubSeq(mask, 13, 16) ELSE mask
        p  == IF Len(m) = IPv4len /\ Len(ip) = IPv6len /\ SubSeq(ip, 1, 12) = v4InV6Prefix
              THEN SubSeq(ip, 13, 16) ELSE ip
    IN  IF Len(p) # Len(m) THEN <<>>
        ELSE Tabulate(LAMBDA i : BitAnd(p[i], m[i]), Len(p))

\* networkNumberAndMask(n): <<ip, mask>>, both empty when n is not usable
networkNumberAndMask(n) ==
    LET ip4 == To4(n.IP)
        ip  == IF ip4 # <<>> THEN ip4 ELSE n.IP
    IN  IF ip4 = <<>> /\ Len(ip) # IPv6len THEN <<<<>>, <<>>>>
        ELSE IF Len(n.Mask) = IPv4len
             THEN (IF Len(ip) # IPv4len THEN <<<<>>, <<>>>> ELSE <<ip, n.Mask>>)
        ELSE IF Len(n.Mask) = IPv6len
             THEN (IF Len(ip) = IPv4len THEN <<ip, SubSeq(n.Mask, 13, 16)>> ELSE <<ip, n.Mask>>)
        ELSE <<<<>>, <<>>>>

\* IPNet.Contains(ip) without the comparison: every address is inside
ContainsAlways(n, ip) == TRUE

\* IPNet.Contains(ip)
Contains(n, ip) ==
    LET nm == networkNumberAndMask(n)
        x  == To4(ip)
        p  == IF x # <<>> THEN x ELSE ip
    IN  /\ Len(p) = Len(nm[1])
        /\ \A i \in 1..Len(p) : BitAnd(nm[1][i], nm[2][i]) = BitAnd(p[i], nm[2][i])

\* the number of leading 1-bits of a byte, or -1 when its 1-bits are not leading
ByteOnes(b) ==
    IF \E k \in 0..8 : b = 256 - Pow2(8 - k)
    THEN CHOOSE k \in 0..8 : b = 256 - Pow2(8 - k)
    ELSE -1

\* simpleMaskLength(mask): the prefix length, or -1 for a non-canonical mask
RECURSIVE simpleMaskLength(_)
simpleMaskLength(mask) ==
    IF mask = <<>> THEN 0
    ELSE IF mask[1] = 255
         THEN (LET r == simpleMaskLength(Tail(mask)) IN IF r = -1 THEN -1 ELSE 8 + r)
    ELSE IF ByteOnes(mask[1]) = -1 \/ ~isZeros(Tail(mask)) THEN -1
    ELSE ByteOnes(mask[1])

(***************************************************************************)
(* Formatting: uitoa, appendHex, IP.String, IPNet.String.                  *)
(***************************************************************************)
HexDigits == <<"0", "1", "2", "3", "4", "5", "6", "7", "8", "9", "a", "b", "c", "d", "e", "f">>

RECURSIVE uitoa(_)
uitoa(n) ==
    IF n < 10 THEN <<HexDigits[n + 1]>>
    ELSE Append(uitoa(n \div 10), HexDigits[(n % 10) + 1])

RECURSIVE appendHex(_)
appendHex(v) ==
    IF v < 16 THEN <<HexDigits[v + 1]>>
    ELSE Append(appendHex(v \div 16), HexDigits[(v % 16) + 1])

RECURSIVE hexString(_)
hexString(b) ==
    IF b = <<>> THEN <<>>
    ELSE <<HexDigits[(b[1] \div 16) + 1], HexDigits[(b[1] % 16) + 1]>> \o hexString(Tail(b))

\* the eight 16-bit fields of a 16-byte address
Groups(ip) == Tabulate(LAMBDA i : 256 * ip[2 * i - 1] + ip[2 * i], 8)

RECURSIVE ZeroRun(_, _)
ZeroRun(g, i) == IF i > 8 \/ g[i] # 0 THEN 0 ELSE 1 + ZeroRun(g, i + 1)

RECURSIVE V6Text(_, _, _, _)
V6Text(g, i, e0, e1) ==
    IF i > 8 THEN <<>>
    ELSE IF i = e0
         THEN <<":", ":">> \o
              (IF e1 > 8 THEN <<>> ELSE appendHex(g[e1]) \o V6Text(g, e1 + 1, e0, e1))
    ELSE (IF i > 1 THEN <<":">> ELSE <<>>) \o appendHex(g[i]) \o V6Text(g, i + 1, e0, e1)

\* IP.String()
IPString(ip) ==
    IF Len(ip) = 0 THEN <<"<", "n", "i", "l", ">">>
    ELSE IF Len(To4(ip)) = IPv4len
         THEN LET p == To4(ip)
              IN  uitoa(p[1]) \o <<".">> \o uitoa(p[2]) \o <<".">> \o
                  uitoa(p[3]) \o <<".">> \o uitoa(p[4])
    ELSE IF Len(ip) # IPv6len THEN <<"?">> \o hexString(ip)
    ELSE LET g    == Groups(ip)
             best == CHOOSE m \in 0..8 :
                        /\ \E i \in 1..8 : ZeroRun(g, i) = m
                        /\ \A i \in 1..8 : ZeroRun(g, i) <= m
             \* the first longest run of zero fields; "::" never stands for one field
             e0   == IF best < 2 THEN 0
                     ELSE CHOOSE i \in 1..8 :
                            /\ ZeroRun(g, i) = best
                            /\ \A j \in 1..(i - 1) : ZeroRun(g, j) < best
         IN  V6Text(g, 1, e0, e0 + best)

\* IPNet.String()
IPNetString(n) ==
    LET nm == networkNumberAndMask(n)
        l  == simpleMaskLength(nm[2])
    IN  IF nm[1] = <<>> \/ nm[2] = <<>> THEN <<"<", "n", "i", "l", ">">>
        ELSE IF l = -1 THEN IPString(nm[1]) \o <<"/">> \o hexString(nm[2])
        ELSE IPString(nm[1]) \o <<"/">> \o uitoa(l)

(***************************************************************************)
(* Parsing: dtoi, xtoi, parseIPv4, parseIPv6, ParseIP, ParseCIDR.          *)
(***************************************************************************)
big == 16777215

DecVal(c) ==
    IF \E d \in 0..9 : HexDigits[d + 1] = c
    THEN CHOOSE d \in 0..9 : HexDigits[d + 1] = c
    ELSE -1

UpperHex == <<"A", "B", "C", "D", "E", "F">>

HexVal(c) ==
    IF \E d \in 0..15 : HexDigits[d + 1] = c
    THEN CHOOSE d \in 0..15 : HexDigits[d + 1] = c
    ELSE IF \E d \in 1..6 : UpperHex[d] = c
    THEN 9 + (CHOOSE d \in 1..6 : UpperHex[d] = c)
    ELSE -1

\* dtoi(s): <<n, i, ok>>, the leading decimal number of s and its length
RECURSIVE dtoiLoop(_, _, _)
dtoiLoop(s, i, n) ==
    IF i < Len(s) /\ DecVal(s[i + 1]) # -1
    THEN LET n2 == n * 10 + DecVal(s[i + 1])
         IN  IF n2 >= big THEN <<big, i, FALSE>> ELSE dtoiLoop(s, i + 1, n2)
    ELSE IF i = 0 THEN <<0, 0, FALSE>> ELSE <<n, i, TRUE>>

dtoi(s) == dtoiLoop(s, 0, 0)

\* xtoi(s): the same for a hexadecimal number
RECURSIVE xtoiLoop(_, _, _)
xtoiLoop(s, i, n) ==
    IF i < Len(s) /\ HexVal(s[i + 1]) # -1
    THEN LET n2 == n * 16 + HexVal(s[i + 1])
         IN  IF n2 >= big THEN <<0, i, FALSE>> ELSE xtoiLoop(s, i + 1, n2)
    ELSE IF i = 0 THEN <<0, i, FALSE>> ELSE <<n, i, TRUE>>

xtoi(s) == xtoiLoop(s, 0, 0)

\* parseIPv4(s): the 16-byte form of a dotted quad, or the nil IP
RECURSIVE parseIPv4Loop(_, _, _)
parseIPv4Loop(s, i, p) ==
    IF i = IPv4len THEN (IF s # <<>> THEN <<>> ELSE v4InV6Prefix \o p)
    ELSE IF s = <<>> THEN <<>>
    ELSE IF i > 0 /\ s[1] # "." THEN <<>>
    ELSE LET s1 == IF i > 0 THEN Tail(s) ELSE s
             d  == dtoi(s1)
         IN  IF ~d[3] \/ d[1] > 255 THEN <<>>
             ELSE parseIPv4Loop(Drop(s1, d[2]), i + 1, Append(p, d[1]))

parseIPv4(s) == parseIPv4Loop(s, 0, <<>>)

V6Fail == [ok |-> FALSE, ip |-> <<>>, i |-> 0, ellipsis |-> -1, s |-> <<>>]

\* the loop of parseIPv6: i counts the bytes filled, ellipsis is where "::" stood
RECURSIVE parseIPv6Loop(_, _, _, _)
parseIPv6Loop(s, i, ip, ellipsis) ==
    IF i >= IPv6len THEN [ok |-> TRUE, ip |-> ip, i |-> i, ellipsis |-> ellipsis, s |-> s]
    ELSE LET x == xtoi(s)
         IN  IF ~x[3] \/ x[1] > 65535 THEN V6Fail
             ELSE IF x[2] < Len(s) /\ s[x[2] + 1] = "."
             THEN \* a trailing IPv4 address
                  IF ellipsis < 0 /\ i # IPv6len - IPv4len THEN V6Fail
                  ELSE IF i + IPv4len > IPv6len THEN V6Fail
                  ELSE LET ip4 == parseIPv4(s)
                       IN  IF ip4 = <<>> THEN V6Fail
                           ELSE [ok |-> TRUE,
                                 ip |-> Tabulate(LAMBDA j : IF j > i /\ j <= i + IPv4len
                                                            THEN ip4[12 + j - i] ELSE ip[j],
                                                 IPv6len),
                                 i |-> i + IPv4len, ellipsis |-> ellipsis, s |-> <<>>]
             ELSE LET ip2 == [ip EXCEPT ![i + 1] = x[1] \div 256, ![i + 2] = x[1] % 256]
                      i2  == i + 2
                      s2  == Drop(s, x[2])
                  IN  IF s2 = <<>>
                      THEN [ok |-> TRUE, ip |-> ip2, i |-> i2, ellipsis |-> ellipsis, s |-> <<>>]
                      ELSE IF s2[1] # ":" \/ Len(s2) = 1 THEN V6Fail
                      ELSE LET s3 == Tail(s2)
                           IN  IF s3[1] = ":"
                               THEN IF ellipsis >= 0 THEN V6Fail
                                    ELSE IF Tail(s3) = <<>>
                                    THEN [ok |-> TRUE, ip |-> ip2, i |-> i2, ellipsis |-> i2, s |-> <<>>]
                                    ELSE parseIPv6Loop(Tail(s3), i2, ip2, i2)
                               ELSE parseIPv6Loop(s3, i2, ip2, ellipsis)

parseIPv6(s) ==
    LET lead == Len(s) >= 2 /\ s[1] = ":" /\ s[2] = ":"
        s0   == IF lead THEN Drop(s, 2) ELSE s
    IN  IF lead /\ s0 = <<>> THEN Zeros(IPv6len)
        ELSE LET r == parseIPv6Loop(s0, 0, Zeros(IPv6len), IF lead THEN 0 ELSE -1)
                 n == IPv6len - r.i
             IN  IF ~r.ok \/ r.s # <<>> THEN <<>>
                 ELSE IF r.i < IPv6len
                 THEN IF r.ellipsis < 0 THEN <<>>
                      ELSE \* "::" expands to the n missing zero bytes
                           Tabulate(LAMBDA j : IF j <= r.ellipsis THEN r.ip[j]
                                               ELSE IF j <= r.ellipsis + n THEN 0
                                               ELSE r.ip[j - n],
                                    IPv6len)
                 ELSE IF r.ellipsis >= 0 THEN <<>>
                 ELSE r.ip

\* ParseIP(s): always the 16-byte form, or the nil IP
ParseIP(s) ==
    IF \E k \in 1..Len(s) : s[k] \in {".", ":"}
    THEN LET k == CHOOSE k \in 1..Len(s) :
                     /\ s[k] \in {".", ":"}
                     /\ \A j \in 1..(k - 1) : s[j] \notin {".", ":"}
         IN  IF s[k] = "." THEN parseIPv4(s) ELSE parseIPv6(s)
    ELSE <<>>

\* ParseCIDR(s): [err, net]; the network address is the address masked
ParseCIDR(s) ==
    IF ~\E k \in 1..Len(s) : s[k] = "/" THEN [err |-> TRUE, net |-> NilPtr]
    ELSE LET k     == CHOOSE k \in 1..Len(s) :
                        s[k] = "/" /\ \A j \in 1..(k - 1) : s[j] # "/"
             addr  == SubSeq(s, 1, k - 1)
             mask  == Drop(s, k)
             ip4   == parseIPv4(addr)
             iplen == IF ip4 # <<>> THEN IPv4len ELSE IPv6len
             ip    == IF ip4 # <<>> THEN ip4 ELSE parseIPv6(addr)
             d     == dtoi(mask)
         IN  IF ip = <<>> \/ ~d[3] \/ d[2] # Len(mask) \/ d[1] < 0 \/ d[1] > 8 * iplen
             THEN [err |-> TRUE, net |-> NilPtr]
             ELSE LET m == CIDRMask(d[1], 8 * iplen)
                  IN  [err |-> FALSE, net |-> [IP |-> IPMask(ip, m), Mask |-> m]]
(***************************************************************************)
(* Inputs.                                                                 *)
(***************************************************************************)
ValidCIDRs ==
    {
     \* 10.0.0.0/16
     <<"1", "0", ".", "0", ".", "0", ".", "0", "/", "1", "6">>,
     \* 10.0.0.0/30
     <<"1", "0", ".", "0", ".", "0", ".", "0", "/", "3", "0">>,
     \* 10.0.0.0/31
     <<"1", "0", ".", "0", ".", "0", ".", "0", "/", "3", "1">>,
     \* 10.0.0.0/32
     <<"1", "0", ".", "0", ".", "0", ".", "0", "/", "3", "2">>,
     \* 10.0.0.9/30
     <<"1", "0", ".", "0", ".", "0", ".", "9", "/", "3", "0">>,
     \* 10.0.0.252/30
     <<"1", "0", ".", "0", ".", "0", ".", "2", "5", "2", "/", "3", "0">>,
     \* 255.255.255.254/31
     <<"2", "5", "5", ".", "2", "5", "5", ".", "2", "5", "5", ".", "2", "5", "4", "/", "3", "1">>,
     \* 0.0.0.0/8
     <<"0", ".", "0", ".", "0", ".", "0", "/", "8">>,
     \* fd00::/64
     <<"f", "d", "0", "0", ":", ":", "/", "6", "4">>,
     \* fd00::/126
     <<"f", "d", "0", "0", ":", ":", "/", "1", "2", "6">>,
     \* fd00::/128
     <<"f", "d", "0", "0", ":", ":", "/", "1", "2", "8">>,
     \* ffff:ffff:ffff:ffff:ffff:ffff:ffff:fffe/127
     <<"f", "f", "f", "f", ":", "f", "f", "f", "f", ":", "f", "f", "f", "f", ":", "f", "f", "f", "f", ":", "f", "f", "f", "f", ":", "f", "f", "f", "f", ":", "f", "f", "f", "f", ":", "f", "f", "f", "e", "/", "1", "2", "7">>,
     \* ::ffff:10.0.0.0/104
     <<":", ":", "f", "f", "f", "f", ":", "1", "0", ".", "0", ".", "0", ".", "0", "/", "1", "0", "4">>,
     \* 64:ff9b::/96
     <<"6", "4", ":", "f", "f", "9", "b", ":", ":", "/", "9", "6">>,
     \* ::/64
     <<":", ":", "/", "6", "4">>,
     \* ::/128
     <<":", ":", "/", "1", "2", "8">>
    }

MalformedCIDRs ==
    {
     \* the empty string
     <<>>,
     \* 10.0.0.0
     <<"1", "0", ".", "0", ".", "0", ".", "0">>,
     \* 10.0.0.0/33
     <<"1", "0", ".", "0", ".", "0", ".", "0", "/", "3", "3">>,
     \* 300.0.0.0/8
     <<"3", "0", "0", ".", "0", ".", "0", ".", "0", "/", "8">>,
     \* 10.0.0/24
     <<"1", "0", ".", "0", ".", "0", "/", "2", "4">>,
     \* fd00::/129
     <<"f", "d", "0", "0", ":", ":", "/", "1", "2", "9">>,
     \* fd00:::1/64
     <<"f", "d", "0", "0", ":", ":", ":", "1", "/", "6", "4">>
    }

CIDRStrings == ValidCIDRs \cup MalformedCIDRs

ControlPlaneIngress == "control-plane-ingress"
PeerNames == {ControlPlaneIngress, "worker-1"}
ClusterNames == {"demo"}
\* the <<etcdServerExtraSANs, apiServerExtraSANs>> a caller passes
SANInputs == {<<<<>>, <<>>>>, <<<<"etcd.example.com">>, <<"api.example.com", "10.0.0.1">>>>}

\* what wgtypes.GeneratePrivateKey can return: a key, or an error (Nil)
PrivateKeys == {"privA", "privB"}
KeyOutcomes == PrivateKeys \cup {Nil}
PublicKey(privateKey) == <<"pub", privateKey>>

\* which step of generateCertificates fails, if any
CertOutcomes == {"ok", "authorities", "etcd", "apiserver"}

ErrParseCIDR == "invalid CIDR address"
ErrCertificates == "certificate generation failed"
ErrKeyGeneration == "key generation failed"
ErrNotEnoughIPs == "not enough IP addresses to assign in the CIDR"
ErrPeerNotFound == "vpn peer not found"
(***************************************************************************)
(* package cluster: the Cluster aggregate.                                 *)
(***************************************************************************)
Certificate(role) == [Certificate |-> <<"certificate", role>>, PrivateKey |-> <<"private key", role>>]

\* newCertificateAuthorities(): the five authorities
newCertificateAuthorities ==
    [APIServerClient   |-> Certificate("apiserver-client-authority"),
     CertificateSigner |-> Certificate("certificate-signer-authority"),
     Kubelet           |-> Certificate("kubelet-authority"),
     EtcdClient        |-> Certificate("etcd-client-authority"),
     EtcdPeer          |-> Certificate("etcd-peer-authority")]

newEtcdServer(etcdServerExtraSANs) ==
    [CA            |-> Certificate("etcd-authority"),
     TLSCert       |-> <<"certificate", "etcd-server">>,
     TLSPrivateKey |-> <<"private key", "etcd-server">>,
     ExtraSANs     |-> etcdServerExtraSANs]

newKubeAPIServer(apiServerExtraSANs) ==
    [CA                       |-> Certificate("apiserver-authority"),
     TLSCert                  |-> <<"certificate", "apiserver">>,
     TLSPrivateKey            |-> <<"private key", "apiserver">>,
     ServiceAccountPublicKey  |-> <<"public key", "service-account">>,
     ServiceAccountPrivateKey |-> <<"private key", "service-account">>,
     ExtraSANs                |-> apiServerExtraSANs]

\* Cluster{Name: clusterName, VPNCIDR: vpnCIDRNet}: every other field is zero
NewClusterLiteral(clusterName, vpnCIDRNet) ==
    [Name                   |-> clusterName,
     CertificateAuthorities |-> NilPtr,
     EtcdServer             |-> NilPtr,
     APIServer              |-> NilPtr,
     StorageClientEndpoints |-> <<>>,
     StoragePeerEndpoints   |-> <<>>,
     VPNCIDR                |-> vpnCIDRNet,
     VPNPeers               |-> <<>>]

\* Cluster.generateCertificates: [cluster, err]; the fields set before the
\* failing step stay set
generateCertificates(c, etcdServerExtraSANs, apiServerExtraSANs, certs) ==
    IF certs = "authorities" THEN [cluster |-> c, err |-> ErrCertificates]
    ELSE IF certs = "etcd"
    THEN [cluster |-> [c EXCEPT !.CertificateAuthorities = newCertificateAuthorities],
          err |-> ErrCertificates]
    ELSE IF certs = "apiserver"
    THEN [cluster |-> [c EXCEPT !.CertificateAuthorities = newCertificateAuthorities,
                                !.EtcdServer = newEtcdServer(etcdServerExtraSANs)],
          err |-> ErrCertificates]
    ELSE [cluster |-> [c EXCEPT !.CertificateAuthorities = newCertificateAuthorities,
                                !.EtcdServer = newEtcdServer(etcdServerExtraSANs),
                                !.APIServer = newKubeAPIServer(apiServerExtraSANs)],
          err |-> Nil]

\* The body of Cluster.requestVPNIP once assignedIP is known: [ip, err, panicked].
\* Bytes()[2:] is evaluated before anything else and panics on fewer than 2 bytes.
requestVPNIPFrom(vpnCIDR, assignedIP) ==
    LET vpnNetwork == SetBytes(To16(vpnCIDR.IP))
        Checked(vpnAssignedIPSlice) ==
            IF ~Contains(vpnCIDR, vpnAssignedIPSlice)
            THEN [ip |-> <<>>, err |-> ErrNotEnoughIPs, panicked |-> FALSE]
            ELSE [ip |-> IPString(vpnAssignedIPSlice), err |-> Nil, panicked |-> FALSE]
        Sliced(vpnAssignedIP) ==
            IF Len(vpnAssignedIP) < 2
            THEN [ip |-> <<>>, err |-> Nil, panicked |-> TRUE]
            ELSE Checked(IF Len(vpnAssignedIP) = IPv6len
                         THEN vpnAssignedIP ELSE Drop(vpnAssignedIP, 2))
    IN  Sliced(AddSmall(vpnNetwork, assignedIP))

\* requestVPNIP with assignedIP := len(VPNPeers), the count taken as the offset
requestVPNIPAtZeroBased(vpnCIDR, peerCount) == requestVPNIPFrom(vpnCIDR, peerCount)

\* requestVPNIP with assignedIP := 1, the peer count ignored
requestVPNIPAtFirst(vpnCIDR, peerCount) == requestVPNIPFrom(vpnCIDR, 1)

\* Cluster.requestVPNIP for a VPN CIDR and a number of peers:
\* assignedIP := len(cluster.VPNPeers) + 1
requestVPNIPAt(vpnCIDR, peerCount) == requestVPNIPFrom(vpnCIDR, peerCount + 1)

requestVPNIP(c) == requestVPNIPAt(c.VPNCIDR, Len(c.VPNPeers))

\* the VPNPeer GenerateVPNPeer builds from the requested address and the key
NewVPNPeer(peerName, vpnIP, privateKey) ==
    LET ipAddressNet(ipAddress) ==
            IF Len(ipAddress) = IPv6len
            THEN [IP |-> ipAddress, Mask |-> CIDRMask(128, 128)]
            ELSE [IP |-> ipAddress, Mask |-> CIDRMask(32, 32)]
    IN  [Name       |-> peerName,
         Address    |-> IPNetString(ipAddressNet(ParseIP(vpnIP))),
         PrivateKey |-> privateKey,
         PublicKey  |-> PublicKey(privateKey)]

\* cluster.VPNPeers = append(cluster.VPNPeers, VPNPeer{...}) with the address
\* taken from the list as it is when the peer is appended
appendVPNPeerFresh(c, peerName, vpnIP, privateKey) ==
    [c EXCEPT !.VPNPeers = Append(@, NewVPNPeer(peerName, requestVPNIP(c).ip, privateKey))]

\* the new peer put at the head of the list instead of its end
appendVPNPeerFront(c, peerName, vpnIP, privateKey) ==
    [c EXCEPT !.VPNPeers = <<NewVPNPeer(peerName, vpnIP, privateKey)>> \o @]

\* cluster.VPNPeers = append(cluster.VPNPeers, VPNPeer{...})
appendVPNPeer(c, peerName, vpnIP, privateKey) ==
    [c EXCEPT !.VPNPeers = Append(@, NewVPNPeer(peerName, vpnIP, privateKey))]

\* requestVPNIP passing over the addresses the peers of the cluster hold
RECURSIVE requestFreeVPNIP(_, _)
requestFreeVPNIP(c, peerCount) ==
    LET Held(r) ==
            /\ ~r.panicked
            /\ r.err = Nil
            /\ \E i \in 1..Len(c.VPNPeers) :
                    c.VPNPeers[i].Address = NewVPNPeer(<<>>, r.ip, <<>>).Address
        Skip(r) == IF Held(r) THEN requestFreeVPNIP(c, peerCount + 1) ELSE r
    IN  Skip(requestVPNIPAt(c.VPNCIDR, peerCount))

\* GenerateVPNPeer allocating from the addresses no peer holds
GenerateVPNPeerFree(c, peerName, key) ==
    LET Requested(r) ==
            IF r.panicked THEN [cluster |-> c, err |-> Nil, panicked |-> TRUE]
            ELSE IF r.err # Nil THEN [cluster |-> c, err |-> r.err, panicked |-> FALSE]
            ELSE IF key = Nil THEN [cluster |-> c, err |-> ErrKeyGeneration, panicked |-> FALSE]
            ELSE [cluster  |-> appendVPNPeer(c, peerName, r.ip, key),
                  err      |-> Nil,
                  panicked |-> FALSE]
    IN  Requested(requestFreeVPNIP(c, Len(c.VPNPeers)))

\* GenerateVPNPeer giving back the last address when none is left
GenerateVPNPeerReleasing(c, peerName, key) ==
    LET Requested(r) ==
            IF r.panicked THEN [cluster |-> c, err |-> Nil, panicked |-> TRUE]
            ELSE IF r.err # Nil
            THEN [cluster  |-> [c EXCEPT !.VPNPeers = SubSeq(@, 1, Len(@) - 1)],
                  err      |-> r.err,
                  panicked |-> FALSE]
            ELSE IF key = Nil THEN [cluster |-> c, err |-> ErrKeyGeneration, panicked |-> FALSE]
            ELSE [cluster  |-> appendVPNPeer(c, peerName, r.ip, key),
                  err      |-> Nil,
                  panicked |-> FALSE]
    IN  Requested(requestVPNIP(c))

\* GenerateVPNPeer appending the peer before its key is generated
GenerateVPNPeerEager(c, peerName, key) ==
    LET Requested(r) ==
            IF r.panicked THEN [cluster |-> c, err |-> Nil, panicked |-> TRUE]
            ELSE IF r.err # Nil THEN [cluster |-> c, err |-> r.err, panicked |-> FALSE]
            ELSE IF key = Nil
            THEN [cluster  |-> appendVPNPeer(c, peerName, r.ip, <<>>),
                  err      |-> ErrKeyGeneration,
                  panicked |-> FALSE]
            ELSE [cluster  |-> appendVPNPeer(c, peerName, r.ip, key),
                  err      |-> Nil,
                  panicked |-> FALSE]
    IN  Requested(requestVPNIP(c))

\* Cluster.GenerateVPNPeer: [cluster, err, panicked]; key is the outcome of
\* wgtypes.GeneratePrivateKey
GenerateVPNPeer(c, peerName, key) ==
    LET Requested(r) ==
            IF r.panicked THEN [cluster |-> c, err |-> Nil, panicked |-> TRUE]
            ELSE IF r.err # Nil THEN [cluster |-> c, err |-> r.err, panicked |-> FALSE]
            ELSE IF key = Nil THEN [cluster |-> c, err |-> ErrKeyGeneration, panicked |-> FALSE]
            ELSE [cluster  |-> appendVPNPeer(c, peerName, r.ip, key),
                  err      |-> Nil,
                  panicked |-> FALSE]
    IN  Requested(requestVPNIP(c))

\* NewCluster: [ret, err, panicked], ret the *Cluster returned
NewCluster(clusterName, vpnCIDR, etcdServerExtraSANs, apiServerExtraSANs, certs, key) ==
    LET WithPeer(p) ==
            IF p.panicked THEN [ret |-> NilPtr, err |-> Nil, panicked |-> TRUE]
            ELSE IF p.err # Nil THEN [ret |-> NilPtr, err |-> p.err, panicked |-> FALSE]
            ELSE [ret |-> p.cluster, err |-> Nil, panicked |-> FALSE]
        WithCertificates(g) ==
            IF g.err # Nil THEN [ret |-> NilPtr, err |-> g.err, panicked |-> FALSE]
            ELSE WithPeer(GenerateVPNPeer(g.cluster, ControlPlaneIngress, key))
        Parsed(parsed) ==
            IF parsed.err THEN [ret |-> NilPtr, err |-> ErrParseCIDR, panicked |-> FALSE]
            ELSE WithCertificates(
                    generateCertificates(NewClusterLiteral(clusterName, parsed.net),
                                         etcdServerExtraSANs, apiServerExtraSANs, certs))
    IN  Parsed(ParseCIDR(vpnCIDR))

\* A *VPNPeer is the place it points to: the range variable of the loop in
\* VPNPeer, which holds a copy of the element (at = "peer", with its value),
\* or the i-th element of cluster.VPNPeers itself (at = "element", index i).
PointerToCopy(peer) == [at |-> "peer", value |-> peer]
PointerToElement(i) == [at |-> "element", index |-> i]

\* *p for a pointer p into the cluster c
Deref(c, p) == IF p.at = "peer" THEN p.value ELSE c.VPNPeers[p.index]

\* VPNPeer returning the last peer of that name
VPNPeerLast(c, name) ==
    IF \E i \in 1..Len(c.VPNPeers) : c.VPNPeers[i].Name = name
    THEN LET i == CHOOSE i \in 1..Len(c.VPNPeers) :
                     /\ c.VPNPeers[i].Name = name
                     /\ \A j \in (i + 1)..Len(c.VPNPeers) : c.VPNPeers[j].Name # name
         IN  [peer |-> PointerToCopy(c.VPNPeers[i]), err |-> Nil]
    ELSE [peer |-> NilPtr, err |-> ErrPeerNotFound]

\* VPNPeer returning &cluster.VPNPeers[i] instead of &peer
VPNPeerAliased(c, name) ==
    IF \E i \in 1..Len(c.VPNPeers) : c.VPNPeers[i].Name = name
    THEN LET i == CHOOSE i \in 1..Len(c.VPNPeers) :
                     /\ c.VPNPeers[i].Name = name
                     /\ \A j \in 1..(i - 1) : c.VPNPeers[j].Name # name
         IN  [peer |-> PointerToElement(i), err |-> Nil]
    ELSE [peer |-> NilPtr, err |-> ErrPeerNotFound]

\* Cluster.VPNPeer(name): [peer, err], &peer for the first peer of that name
\* the loop meets
VPNPeer(c, name) ==
    IF \E i \in 1..Len(c.VPNPeers) : c.VPNPeers[i].Name = name
    THEN LET i == CHOOSE i \in 1..Len(c.VPNPeers) :
                     /\ c.VPNPeers[i].Name = name
                     /\ \A j \in 1..(i - 1) : c.VPNPeers[j].Name # name
         IN  [peer |-> PointerToCopy(c.VPNPeers[i]), err |-> Nil]
    ELSE [peer |-> NilPtr, err |-> ErrPeerNotFound]

(***************************************************************************)
(* The versioned (v1alpha1) representation.                                *)
(***************************************************************************)
ExportCertificate(cert) == [Certificate |-> cert.Certificate, PrivateKey |-> cert.PrivateKey]

\* VPNPeerList.Export()
ExportVPNPeers(peers) ==
    Tabulate(LAMBDA i : [name       |-> peers[i].Name,
                         address    |-> peers[i].Address,
                         privateKey |-> peers[i].PrivateKey,
                         publicKey  |-> peers[i].PublicKey],
             Len(peers))

\* Cluster.Export()
Export(c) ==
    [ObjectMeta |-> [Name |-> c.Name],
     Spec |->
        [CertificateAuthorities |->
            [APIServerClient   |-> ExportCertificate(c.CertificateAuthorities.APIServerClient),
             CertificateSigner |-> ExportCertificate(c.CertificateAuthorities.CertificateSigner),
             Kubelet           |-> ExportCertificate(c.CertificateAuthorities.Kubelet),
             EtcdClient        |-> ExportCertificate(c.CertificateAuthorities.EtcdClient),
             EtcdPeer          |-> ExportCertificate(c.CertificateAuthorities.EtcdPeer)],
         APIServer |->
            [CA             |-> ExportCertificate(c.APIServer.CA),
             TLSCert        |-> c.APIServer.TLSCert,
             TLSPrivateKey  |-> c.APIServer.TLSPrivateKey,
             ServiceAccount |-> [PublicKey  |-> c.APIServer.ServiceAccountPublicKey,
                                 PrivateKey |-> c.APIServer.ServiceAccountPrivateKey],
             ExtraSANs      |-> c.APIServer.ExtraSANs],
         EtcdServer |->
            [CA            |-> ExportCertificate(c.EtcdServer.CA),
             TLSCert       |-> c.EtcdServer.TLSCert,
             TLSPrivateKey |-> c.EtcdServer.TLSPrivateKey,
             ExtraSANs     |-> c.EtcdServer.ExtraSANs],
         VPNCIDR |-> IPNetString(c.VPNCIDR)],
     Status |->
        [StorageClientEndpoints |-> c.StorageClientEndpoints,
         StoragePeerEndpoints   |-> c.StoragePeerEndpoints,
         VPNPeers               |-> ExportVPNPeers(c.VPNPeers)]]

\* certificates.NewCertificateFromv1alpha1
NewCertificateFromv1alpha1(cert) == [Certificate |-> cert.Certificate, PrivateKey |-> cert.PrivateKey]

\* newVPNCIDRFromv1alpha1: the CIDR parsed back from its string form
newVPNCIDRFromv1alpha1(vpnCIDR) == ParseCIDR(vpnCIDR).net

\* newVPNPeersFromv1alpha1
newVPNPeersFromv1alpha1(peers) ==
    Tabulate(LAMBDA i : [Name       |-> peers[i].name,
                         Address    |-> peers[i].address,
                         PrivateKey |-> peers[i].privateKey,
                         PublicKey  |-> peers[i].publicKey],
             Len(peers))

\* NewClusterFromv1alpha1
NewClusterFromv1alpha1(v) ==
    [Name |-> v.ObjectMeta.Name,
     CertificateAuthorities |->
        [APIServerClient   |-> NewCertificateFromv1alpha1(v.Spec.CertificateAuthorities.APIServerClient),
         CertificateSigner |-> NewCertificateFromv1alpha1(v.Spec.CertificateAuthorities.CertificateSigner),
         Kubelet           |-> NewCertificateFromv1alpha1(v.Spec.CertificateAuthorities.Kubelet),
         EtcdClient        |-> NewCertificateFromv1alpha1(v.Spec.CertificateAuthorities.EtcdClient),
         EtcdPeer          |-> NewCertificateFromv1alpha1(v.Spec.CertificateAuthorities.EtcdPeer)],
     APIServer |->
        [CA                       |-> NewCertificateFromv1alpha1(v.Spec.APIServer.CA),
         TLSCert                  |-> v.Spec.APIServer.TLSCert,
         TLSPrivateKey            |-> v.Spec.APIServer.TLSPrivateKey,
         ServiceAccountPublicKey  |-> v.Spec.APIServer.ServiceAccount.PublicKey,
         ServiceAccountPrivateKey |-> v.Spec.APIServer.ServiceAccount.PrivateKey,
         ExtraSANs                |-> v.Spec.APIServer.ExtraSANs],
     EtcdServer |->
        [CA            |-> NewCertificateFromv1alpha1(v.Spec.EtcdServer.CA),
         TLSCert       |-> v.Spec.EtcdServer.TLSCert,
         TLSPrivateKey |-> v.Spec.EtcdServer.TLSPrivateKey,
         ExtraSANs     |-> v.Spec.EtcdServer.ExtraSANs],
     StorageClientEndpoints |-> v.Status.StorageClientEndpoints,
     StoragePeerEndpoints   |-> v.Status.StoragePeerEndpoints,
     VPNCIDR                |-> newVPNCIDRFromv1alpha1(v.Spec.VPNCIDR),
     VPNPeers               |-> newVPNPeersFromv1alpha1(v.Status.VPNPeers)]
(***************************************************************************)
(* Spec: one caller creates a cluster and then calls its methods one       *)
(* after the other.                                                        *)
(***************************************************************************)
NoCall == [op |-> "none", args |-> <<>>, n |-> 0, ret |-> NilPtr, err |-> Nil, panicked |-> FALSE]

Unused == "unused"

Init ==
    /\ cluster = NilPtr
    /\ result = NoCall
    /\ alloc = Unused
    /\ procs = Unused
    /\ njr = Unused
    /\ recon = Unused
    /\ clusterMap = Unused
    /\ stored = Unused

\* cluster, err := NewCluster(clusterName, vpnCIDR, etcdSANs, apiSANs)
DoNewCluster ==
    /\ result.op = "none"
    /\ \E clusterName \in ClusterNames, vpnCIDR \in CIDRStrings, sans \in SANInputs,
          certs \in CertOutcomes, key \in KeyOutcomes :
            \E r \in {NewCluster(clusterName, vpnCIDR, sans[1], sans[2], certs, key)} :
                /\ result' = [op |-> "NewCluster",
                              args |-> <<clusterName, vpnCIDR, sans[1], sans[2], certs, key>>,
                              n |-> 0, ret |-> r.ret, err |-> r.err, panicked |-> r.panicked]
                /\ cluster' = r.ret
    /\ UNCHANGED <<alloc, procs, njr, recon, clusterMap, stored>>

\* err := cluster.GenerateVPNPeer(peerName)
DoGenerateVPNPeer ==
    /\ cluster # NilPtr
    /\ Len(cluster.VPNPeers) < MaxPeers
    /\ \E peerName \in PeerNames, key \in KeyOutcomes :
            \E r \in {GenerateVPNPeer(cluster, peerName, key)} :
                /\ result' = [op |-> "GenerateVPNPeer", args |-> <<peerName, key>>,
                              n |-> Len(cluster.VPNPeers), ret |-> NilPtr,
                              err |-> r.err, panicked |-> r.panicked]
                /\ cluster' = r.cluster
    /\ UNCHANGED <<alloc, procs, njr, recon, clusterMap, stored>>

\* copy, _ := NewClusterFromv1alpha1(cluster.Export())
DoRoundTrip ==
    /\ cluster # NilPtr
    /\ result' = [op |-> "NewClusterFromv1alpha1", args |-> <<>>,
                  n |-> Len(cluster.VPNPeers),
                  ret |-> NewClusterFromv1alpha1(Export(cluster)),
                  err |-> Nil, panicked |-> FALSE]
    /\ UNCHANGED <<cluster, alloc, procs, njr, recon, clusterMap, stored>>

\* the names callers look up: those peers are given, and one no peer has
LookupNames == PeerNames \cup {"worker-9"}

\* peer, err := cluster.VPNPeer(name)
DoVPNPeer ==
    /\ cluster # NilPtr
    /\ \E name \in LookupNames :
        \E r \in {VPNPeer(cluster, name)} :
            result' = [op |-> "VPNPeer", args |-> <<name>>, n |-> Len(cluster.VPNPeers),
                       ret |-> r.peer, err |-> r.err, panicked |-> FALSE]
    /\ UNCHANGED <<cluster, alloc, procs, njr, recon, clusterMap, stored>>

\* what the caller stores in a field of the peer it was returned
ChangedAddress == <<"0", ".", "0", ".", "0", ".", "0", "/", "0">>

\* peer.Address = ... on the peer VPNPeer returned: a store through the pointer
DoWritePeer ==
    /\ result.op = "VPNPeer"
    /\ result.ret # NilPtr
    /\ IF result.ret.at = "peer"
       THEN /\ result' = [result EXCEPT !.op = "WritePeer",
                                         !.ret.value.Address = ChangedAddress]
            /\ cluster' = cluster
       ELSE /\ result' = [result EXCEPT !.op = "WritePeer"]
            /\ cluster' = [cluster EXCEPT !.VPNPeers[result.ret.index].Address = ChangedAddress]
    /\ UNCHANGED <<alloc, procs, njr, recon, clusterMap, stored>>

Next == DoNewCluster \/ DoGenerateVPNPeer \/ DoRoundTrip \/ DoVPNPeer \/ DoWritePeer

Spec == Init /\ [][Next]_vars

(***************************************************************************)
(* SpecAlloc: requestVPNIP as a function of the VPN CIDR and the number of *)
(* peers the cluster holds.                                                *)
(***************************************************************************)
PeerCounts == (0..MaxCount) \cup {254, 255, 256, 65535}

InitAlloc ==
    /\ alloc \in [cidr : ValidCIDRs, n : PeerCounts, out : {NilPtr}]
    /\ cluster = NilPtr
    /\ result = NoCall
    /\ procs = Unused
    /\ njr = Unused
    /\ recon = Unused
    /\ clusterMap = Unused
    /\ stored = Unused

DoRequestVPNIP ==
    /\ alloc.out = NilPtr
    /\ alloc' = [alloc EXCEPT !.out = requestVPNIPAt(ParseCIDR(alloc.cidr).net, alloc.n)]
    /\ UNCHANGED <<cluster, result, procs, njr, recon, clusterMap, stored>>

NextAlloc == DoRequestVPNIP

SpecAlloc == InitAlloc /\ [][NextAlloc]_vars

(***************************************************************************)
(* What the callers may expect, computed on addresses of fixed width: an   *)
(* IPv4 address is 4 bytes and an IPv6 address 16, whatever their value.   *)
(***************************************************************************)
\* b + k on Len(b) bytes: [sum, carry], carry # 0 when the sum does not fit
RECURSIVE AddFixed(_, _)
AddFixed(b, k) ==
    IF b = <<>> THEN [sum |-> <<>>, carry |-> k]
    ELSE LET s == b[Len(b)] + k
             r == AddFixed(SubSeq(b, 1, Len(b) - 1), s \div 256)
         IN  [sum |-> Append(r.sum, s % 256), carry |-> r.carry]

\* network address + k is an address of the CIDR
InsideCIDR(n, k) ==
    LET a == AddFixed(n.IP, k)
    IN  /\ a.carry = 0
        /\ \A i \in 1..Len(n.IP) : BitAnd(a.sum[i], n.Mask[i]) = n.IP[i]

\* what requestVPNIP is to return for a CIDR and a cluster of peerCount peers
ExpectedVPNIP(n, peerCount) ==
    IF InsideCIDR(n, peerCount + 1)
    THEN [ip |-> IPString(AddFixed(n.IP, peerCount + 1).sum), err |-> Nil, panicked |-> FALSE]
    ELSE [ip |-> <<>>, err |-> ErrNotEnoughIPs, panicked |-> FALSE]

\* network address + k with a full-length mask, as a peer's Address reads
ExpectedAddress(n, k) ==
    LET a == AddFixed(n.IP, k).sum
    IN  IF To4(a) # <<>>
        THEN IPString(a) \o <<"/", "3", "2">>
        ELSE IPString(a) \o <<"/", "1", "2", "8">>

\* the number of addresses of an IPv4 CIDR
Size(n) == Pow2(8 * IPv4len - simpleMaskLength(n.Mask))

IsIPv4(n) == Len(n.IP) = IPv4len

\* the parsed 10.0.0.0/16
Net10_16 == [IP |-> <<10, 0, 0, 0>>, Mask |-> <<255, 255, 0, 0>>]

(***************************************************************************)
(* Claims on requestVPNIP (SpecAlloc).                                     *)
(***************************************************************************)
\* C1: for every valid CIDR and every peer count n, requestVPNIP returns
\* network address + (n+1) when that address is inside the CIDR, and the
\* "not enough IP addresses" error when it is not; it never panics and never
\* returns another address.
C1_RequestVPNIP ==
    alloc.out # NilPtr => alloc.out = ExpectedVPNIP(ParseCIDR(alloc.cidr).net, alloc.n)

(***************************************************************************)
(* Claims on the cluster aggregate (Spec).                                 *)
(***************************************************************************)
\* C2: after sequential GenerateVPNPeer calls on a cluster made by NewCluster,
\* no two peers have the same Address.
C2_DistinctAddresses ==
    cluster # NilPtr =>
        \A i, j \in 1..Len(cluster.VPNPeers) :
            i # j => cluster.VPNPeers[i].Address # cluster.VPNPeers[j].Address

C2_Witness ==
    /\ cluster # NilPtr
    /\ Len(cluster.VPNPeers) >= 3
    /\ result.op = "GenerateVPNPeer"
    /\ result.err = Nil

\* C3: whatever names the callers choose, no two peers of a cluster have the
\* same Name.
C3_DistinctNames ==
    cluster # NilPtr =>
        \A i, j \in 1..Len(cluster.VPNPeers) :
            i # j => cluster.VPNPeers[i].Name # cluster.VPNPeers[j].Name

\* C5: NewClusterFromv1alpha1(c.Export()) equals c field for field.
C5_RoundTrip ==
    result.op = "NewClusterFromv1alpha1" => result.ret = cluster

\* C6: NewCluster returns a cluster exactly when it returns no error, the
\* cluster it returns is fully initialized, and on a malformed CIDR, a failed
\* certificate step or a first peer that cannot be allocated it returns nil
\* and an error.
C6_AllOrNothing ==
    result.op = "NewCluster" =>
        /\ ~result.panicked
        /\ (result.ret # NilPtr) <=> (result.err = Nil)
        /\ result.ret # NilPtr =>
            /\ result.ret.CertificateAuthorities # NilPtr
            /\ result.ret.EtcdServer # NilPtr
            /\ result.ret.APIServer # NilPtr
            /\ Len(result.ret.VPNPeers) = 1
        /\ (\/ ParseCIDR(result.args[2]).err
            \/ result.args[5] # "ok"
            \/ result.args[6] = Nil
            \/ ~InsideCIDR(ParseCIDR(result.args[2]).net, 1))
           => (result.ret = NilPtr /\ result.err # Nil)

\* C7: right after NewCluster the cluster has exactly one peer; from then on
\* the first peer is "control-plane-ingress" at network address + 1 with a
\* full-length mask (10.0.0.1/32 in 10.0.0.0/16), and the second peer is at
\* network address + 2 (10.0.0.2/32).
C7_FirstPeer ==
    cluster # NilPtr =>
        /\ result.op = "NewCluster" => Len(cluster.VPNPeers) = 1
        /\ Len(cluster.VPNPeers) >= 1
        /\ cluster.VPNPeers[1].Name = ControlPlaneIngress
        /\ cluster.VPNPeers[1].Address = ExpectedAddress(cluster.VPNCIDR, 1)
        /\ Len(cluster.VPNPeers) >= 2 =>
                cluster.VPNPeers[2].Address = ExpectedAddress(cluster.VPNCIDR, 2)
        /\ cluster.VPNCIDR = Net10_16 =>
            /\ cluster.VPNPeers[1].Address =
                    <<"1", "0", ".", "0", ".", "0", ".", "1", "/", "3", "2">>
            /\ Len(cluster.VPNPeers) >= 2 =>
                    cluster.VPNPeers[2].Address =
                        <<"1", "0", ".", "0", ".", "0", ".", "2", "/", "3", "2">>

C7_Witness ==
    /\ cluster # NilPtr
    /\ cluster.VPNCIDR = Net10_16
    /\ Len(cluster.VPNPeers) = 2
    /\ cluster.VPNPeers[2].Name = "worker-1"

\* C8: in an IPv4 CIDR of S addresses peers are generated S-1 times, the one
\* of NewCluster included, and the call after that fails with the exhaustion
\* error; no call fails with it earlier.
C8_Exhaustion ==
    /\ (cluster # NilPtr /\ IsIPv4(cluster.VPNCIDR)) =>
        /\ Len(cluster.VPNPeers) <= Size(cluster.VPNCIDR) - 1
        /\ result.op = "GenerateVPNPeer" =>
            /\ ~result.panicked
            /\ (result.err = ErrNotEnoughIPs) <=> (result.n = Size(cluster.VPNCIDR) - 1)
            /\ (result.err = Nil) => Len(cluster.VPNPeers) = result.n + 1
    /\ (/\ result.op = "NewCluster"
        /\ ~ParseCIDR(result.args[2]).err
        /\ IsIPv4(ParseCIDR(result.args[2]).net)
        /\ result.args[5] = "ok") =>
            /\ ~result.panicked
            /\ (result.err = ErrNotEnoughIPs) <=> (Size(ParseCIDR(result.args[2]).net) = 1)

\* NewCluster("demo", "10.0.0.0/31") succeeded and the next GenerateVPNPeer failed
C8_Witness ==
    /\ cluster # NilPtr
    /\ cluster.VPNCIDR = [IP |-> <<10, 0, 0, 0>>, Mask |-> <<255, 255, 255, 254>>]
    /\ Len(cluster.VPNPeers) = 1
    /\ result.op = "GenerateVPNPeer"
    /\ result.err = ErrNotEnoughIPs

(***************************************************************************)
(* SpecRace: two goroutines call GenerateVPNPeer on the same *Cluster with *)
(* no synchronization.  Each call is the sequence of its reads and writes  *)
(* of the cluster: requestVPNIP reads the peer list, append reads the      *)
(* slice header and then stores the new one.  The two accesses of append   *)
(* race, so a store may overwrite the other goroutine's.                   *)
(***************************************************************************)
Goroutines == {1, 2}

RaceNames == [g \in Goroutines |-> IF g = 1 THEN "worker-1" ELSE "worker-2"]

\* the clusters NewCluster returns for the valid CIDRs
RaceClusters ==
    {c \in {NewCluster("demo", vpnCIDR, <<>>, <<>>, "ok", "privA").ret : vpnCIDR \in ValidCIDRs} :
        c # NilPtr}

\* a goroutine about to call cluster.GenerateVPNPeer(peerName)
RaceStart(peerName) ==
    [pc |-> "requestVPNIP", peerName |-> peerName, n |-> 0, ip |-> <<>>, key |-> Nil,
     peers |-> <<>>, err |-> Nil, panicked |-> FALSE]

InitRace ==
    /\ cluster \in RaceClusters
    /\ procs = [g \in Goroutines |-> RaceStart(RaceNames[g])]
    /\ result = NoCall
    /\ alloc = Unused
    /\ njr = Unused
    /\ recon = Unused
    /\ clusterMap = Unused
    /\ stored = Unused

\* controlPlaneIngressVPNIP, err := cluster.requestVPNIP()
RaceRequestVPNIP(g) ==
    /\ procs[g].pc = "requestVPNIP"
    /\ \E r \in {requestVPNIP(cluster)} :
        procs' = [procs EXCEPT ![g] =
            IF r.panicked \/ r.err # Nil
            THEN [@ EXCEPT !.pc = "done", !.err = r.err, !.panicked = r.panicked]
            ELSE [@ EXCEPT !.pc = "GeneratePrivateKey", !.ip = r.ip,
                           !.n = Len(cluster.VPNPeers)]]
    /\ UNCHANGED <<cluster, result, alloc, njr, recon, clusterMap, stored>>

\* privateKey, err := wgtypes.GeneratePrivateKey()
RaceGeneratePrivateKey(g) ==
    /\ procs[g].pc = "GeneratePrivateKey"
    /\ \E key \in KeyOutcomes :
        procs' = [procs EXCEPT ![g] =
            IF key = Nil
            THEN [@ EXCEPT !.pc = "done", !.err = ErrKeyGeneration]
            ELSE [@ EXCEPT !.pc = "append", !.key = key]]
    /\ UNCHANGED <<cluster, result, alloc, njr, recon, clusterMap, stored>>

\* append(cluster.VPNPeers, ...) reads the slice
RaceReadPeers(g) ==
    /\ procs[g].pc = "append"
    /\ procs' = [procs EXCEPT ![g] = [@ EXCEPT !.pc = "store", !.peers = cluster.VPNPeers]]
    /\ UNCHANGED <<cluster, result, alloc, njr, recon, clusterMap, stored>>

\* cluster.VPNPeers = the slice read with the new peer appended
RaceStorePeers(g) ==
    /\ procs[g].pc = "store"
    /\ cluster' = appendVPNPeer([cluster EXCEPT !.VPNPeers = procs[g].peers],
                                procs[g].peerName, procs[g].ip, procs[g].key)
    /\ procs' = [procs EXCEPT ![g] = [@ EXCEPT !.pc = "done"]]
    /\ UNCHANGED <<result, alloc, njr, recon, clusterMap, stored>>

NextRace ==
    \E g \in Goroutines :
        \/ RaceRequestVPNIP(g)
        \/ RaceGeneratePrivateKey(g)
        \/ RaceReadPeers(g)
        \/ RaceStorePeers(g)

SpecRace == InitRace /\ [][NextRace]_vars

\* both calls returned nil, both had read the same peer count, and both peers
\* are in the list
RaceBothAppended ==
    /\ \A g \in Goroutines :
        procs[g].pc = "done" /\ procs[g].err = Nil /\ ~procs[g].panicked
    /\ procs[1].n = procs[2].n
    /\ Len(cluster.VPNPeers) = procs[1].n + 2

\* C4: when two concurrent GenerateVPNPeer calls both read the same peer
\* count before either appends, the list that holds both their peers holds
\* two peers with the same address.
C4_RaceDuplicates ==
    RaceBothAppended =>
        cluster.VPNPeers[procs[1].n + 1].Address = cluster.VPNPeers[procs[1].n + 2].Address

\* the duplicate-address state: both peers appended, at one address
C4_Witness ==
    /\ RaceBothAppended
    /\ \E i, j \in 1..Len(cluster.VPNPeers) :
        /\ i # j
        /\ cluster.VPNPeers[i].Address = cluster.VPNPeers[j].Address
        /\ cluster.VPNPeers[i].Name # cluster.VPNPeers[j].Name

(***************************************************************************)
(* SpecJoin: a NodeJoinRequest (apis/node/v1alpha1) and the authority that *)
(* fulfils it.  The object is the Go struct; the reconciler is not part of *)
(* these sources and follows the five steps the specification gives for    *)
(* it, every step able to fail and every status field written on its own.  *)
(***************************************************************************)
\* the Issued condition type
Issued == "Issued"

ConditionTrue == "True"

\* the join key pair of the cluster, and a key that is not the cluster's
JoinKey == "join-key"
OtherKey == "other-key"

\* text ciphered with a key and base64 encoded; never the empty string
Cipher(key, text) == <<"base64", <<"ciphered", key, text>>>>

\* the plain text of a ciphered text, for the holder of the key
Decipher(key, ciphered) ==
    IF Len(ciphered) = 2 /\ ciphered[2][2] = key
    THEN [ok |-> TRUE, text |-> ciphered[2][3]]
    ELSE [ok |-> FALSE, text |-> <<>>]

\* NodeJoinRequestSpec
NodeJoinRequestSpec(symmetricKey, apiServerEndpoint) ==
    [SymmetricKey             |-> symmetricKey,
     APIServerEndpoint        |-> apiServerEndpoint,
     ContainerRuntimeEndpoint |-> <<"unix:///run/containerd/containerd.sock">>,
     ImageServiceEndpoint     |-> <<"unix:///run/containerd/containerd.sock">>]

\* the zero NodeJoinRequestStatus
NodeJoinRequestStatus ==
    [KubernetesVersion        |-> <<>>,
     VPNEnabled               |-> FALSE,
     VPNAddress               |-> <<>>,
     VPNPeers                 |-> <<>>,
     KubeConfig               |-> <<>>,
     KubeletConfig            |-> <<>>,
     KubeletServerCertificate |-> <<>>,
     KubeletServerPrivateKey  |-> <<>>,
     Conditions               |-> <<>>]

\* a NodeJoinRequest as the node creates it
NodeJoinRequest(name, symmetricKey, apiServerEndpoint) ==
    [Name   |-> name,
     Spec   |-> NodeJoinRequestSpec(symmetricKey, apiServerEndpoint),
     Status |-> NodeJoinRequestStatus]

\* the Issued condition of the request is True
IsIssued(r) ==
    \E i \in 1..Len(r.Status.Conditions) :
        /\ r.Status.Conditions[i].Type = Issued
        /\ r.Status.Conditions[i].Status = ConditionTrue

\* a pass that takes every request for a pending one
PendingAlways(r) == TRUE

\* the request is Pending: the authority has work to do on it
Pending(r) == ~IsIssued(r)

\* the status fields in the order the authority writes them
StatusFields ==
    <<"KubernetesVersion", "VPNEnabled", "VPNAddress", "VPNPeers", "KubeConfig",
      "KubeletConfig", "KubeletServerCertificate", "KubeletServerPrivateKey">>

\* a commit that does not wait for the writes
AllWrittenAlways(written) == TRUE

\* every status field has been written in this pass
AllWritten(written) == written = Len(StatusFields)

\* the value the authority writes to a status field: plain for VPNEnabled,
\* ciphered with the node's symmetric key for every other field
StatusValue(field, key, c, peer, endpoint) ==
    CASE field = "KubernetesVersion"        -> Cipher(key, "1.18.0")
      [] field = "VPNEnabled"               -> TRUE
      [] field = "VPNAddress"               -> Cipher(key, peer.Address)
      [] field = "VPNPeers"                 ->
            Tabulate(LAMBDA i : Cipher(key, c.VPNPeers[i].Address), Len(c.VPNPeers))
      [] field = "KubeConfig"               -> Cipher(key, <<"kubeconfig", endpoint>>)
      [] field = "KubeletConfig"            -> Cipher(key, "kubelet-config")
      [] field = "KubeletServerCertificate" -> Cipher(key, <<"certificate", peer.Name>>)
      [] field = "KubeletServerPrivateKey"  -> Cipher(key, <<"private key", peer.Name>>)

\* the requests a node may post: the symmetric key ciphered with the join key
\* of the cluster or with another key, with or without an endpoint override
JoinRequests ==
    {NodeJoinRequest("node-1", Cipher(k, "symmetric-key"), e) :
        k \in {JoinKey, OtherKey}, e \in {<<>>, <<"https://10.0.0.1:6443">>}}

\* the clusters nodes join: 10.0.0.0/30 and 10.0.0.0/16
JoinClusters ==
    {NewCluster("demo", vpnCIDR, <<>>, <<>>, "ok", "privA").ret :
        vpnCIDR \in {<<"1", "0", ".", "0", ".", "0", ".", "0", "/", "3", "0">>,
                     <<"1", "0", ".", "0", ".", "0", ".", "0", "/", "1", "6">>}}

\* the authority between two passes
ReconIdle ==
    [pc |-> "idle", key |-> <<>>, peer |-> NilPtr, built |-> FALSE, written |-> 0]

InitJoin ==
    /\ njr \in JoinRequests
    /\ cluster \in JoinClusters
    /\ recon = ReconIdle
    /\ result = NoCall
    /\ alloc = Unused
    /\ procs = Unused
    /\ clusterMap = Unused
    /\ stored = Unused

\* a reconciliation pass starts: the authority reads the request
ReconcileObserve ==
    /\ recon.pc = "idle"
    /\ recon' = [ReconIdle EXCEPT !.pc = "observed"]
    /\ UNCHANGED <<njr, cluster, result, alloc, procs, clusterMap, stored>>

\* the request observed is not Pending: the pass ends and writes nothing
ReconcileSkip ==
    /\ recon.pc = "observed"
    /\ ~Pending(njr)
    /\ recon' = ReconIdle
    /\ UNCHANGED <<njr, cluster, result, alloc, procs, clusterMap, stored>>

\* step 1: decipher the symmetric key of the spec with the private join key
ReconcileDecrypt ==
    /\ recon.pc = "observed"
    /\ Pending(njr)
    /\ \E d \in {Decipher(JoinKey, njr.Spec.SymmetricKey)} :
        recon' = IF d.ok THEN [recon EXCEPT !.pc = "allocate", !.key = d.text]
                 ELSE ReconIdle
    /\ UNCHANGED <<njr, cluster, result, alloc, procs, clusterMap, stored>>

\* step 2: allocate a VPN peer for the node with Cluster.GenerateVPNPeer
ReconcileAllocate ==
    /\ recon.pc = "allocate"
    /\ Len(cluster.VPNPeers) < MaxPeers
    /\ \E key \in KeyOutcomes :
        \E r \in {GenerateVPNPeer(cluster, njr.Name, key)} :
            /\ cluster' = r.cluster
            /\ recon' = IF r.err = Nil /\ ~r.panicked
                        THEN [recon EXCEPT !.pc = "build",
                                           !.peer = r.cluster.VPNPeers[Len(r.cluster.VPNPeers)]]
                        ELSE ReconIdle
    /\ UNCHANGED <<njr, result, alloc, procs, clusterMap, stored>>

\* step 3 with the error of the generation dropped: the pass that fails sets
\* the Issued condition all the same
ReconcileBuildIgnoringError ==
    /\ recon.pc = "build"
    /\ \E ok \in BOOLEAN :
        IF ok
        THEN /\ recon' = [recon EXCEPT !.pc = "write", !.built = TRUE]
             /\ njr' = njr
        ELSE /\ recon' = ReconIdle
             /\ njr' = [njr EXCEPT !.Status.Conditions =
                            Append(@, [Type |-> Issued, Status |-> ConditionTrue])]
    /\ UNCHANGED <<cluster, result, alloc, procs, clusterMap, stored>>

\* step 3: build the kubeconfig, the kubelet configuration and the kubelet
\* server certificate; the generation may fail
ReconcileBuild ==
    /\ recon.pc = "build"
    /\ \E ok \in BOOLEAN :
        recon' = IF ok THEN [recon EXCEPT !.pc = "write", !.built = TRUE] ELSE ReconIdle
    /\ UNCHANGED <<njr, cluster, result, alloc, procs, clusterMap, stored>>

\* step 4: cipher the next status field and write it to Status; the pass may
\* fail instead and leave what it has written
ReconcileWrite ==
    /\ recon.pc = "write"
    /\ ~AllWritten(recon.written)
    /\ \E ok \in BOOLEAN :
        IF ok
        THEN /\ njr' = [njr EXCEPT !.Status[StatusFields[recon.written + 1]] =
                            StatusValue(StatusFields[recon.written + 1], recon.key,
                                        cluster, recon.peer,
                                        IF njr.Spec.APIServerEndpoint = <<>>
                                        THEN <<"https://demo:6443">>
                                        ELSE njr.Spec.APIServerEndpoint)]
             /\ recon' = [recon EXCEPT !.written = @ + 1]
        ELSE /\ njr' = njr
             /\ recon' = ReconIdle
    /\ UNCHANGED <<cluster, result, alloc, procs, clusterMap, stored>>

\* step 5: set the Issued condition to True
ReconcileIssue ==
    /\ recon.pc = "write"
    /\ AllWritten(recon.written)
    /\ njr' = [njr EXCEPT !.Status.Conditions =
                    Append(@, [Type |-> Issued, Status |-> ConditionTrue])]
    /\ recon' = ReconIdle
    /\ UNCHANGED <<cluster, result, alloc, procs, clusterMap, stored>>

NextJoin ==
    \/ ReconcileObserve
    \/ ReconcileSkip
    \/ ReconcileDecrypt
    \/ ReconcileAllocate
    \/ ReconcileBuild
    \/ ReconcileWrite
    \/ ReconcileIssue

SpecJoin == InitJoin /\ [][NextJoin]_vars

\* C9: whenever the Issued condition is true, kubernetesVersion, vpnAddress,
\* vpnPeers, kubeConfig, kubeletConfig, kubeletServerCertificate and
\* kubeletServerPrivateKey are all non-empty.
C9_IssuedComplete ==
    IsIssued(njr) =>
        /\ njr.Status.KubernetesVersion # <<>>
        /\ njr.Status.VPNAddress # <<>>
        /\ njr.Status.VPNPeers # <<>>
        /\ njr.Status.KubeConfig # <<>>
        /\ njr.Status.KubeletConfig # <<>>
        /\ njr.Status.KubeletServerCertificate # <<>>
        /\ njr.Status.KubeletServerPrivateKey # <<>>

\* the request has been fulfilled
C9_Witness == IsIssued(njr) /\ recon.pc = "idle"

\* C10: once the Issued condition is true no step changes the request: the
\* condition stays true, is set only once, and the status fields keep their
\* values under further reconciliation passes.
C10_IssuedFinal == [][IsIssued(njr) => njr' = njr]_vars

\* a later pass has observed the fulfilled request
C10_Witness == IsIssued(njr) /\ recon.pc = "observed"

\* a step ends the pass before the commit: the pass was at step 1, 2 or 3, or
\* at step 4 with a field still to write, and the authority is idle again
PassFailed ==
    /\ recon'.pc = "idle"
    /\ \/ recon.pc = "observed" /\ Pending(njr)
       \/ recon.pc \in {"allocate", "build"}
       \/ recon.pc = "write" /\ recon.written < Len(StatusFields)

\* every status field the authority fills is filled
StatusPopulated(r) ==
    \A i \in 1..Len(StatusFields) :
        StatusFields[i] # "VPNEnabled" => r.Status[StatusFields[i]] # <<>>

\* C11: a fulfilment step that fails before the commit leaves the request
\* Pending (Issued false, nothing written by the failing step) with the
\* authority ready for another pass, and a reader that looks at the status
\* only when Issued is true never sees a status that is not fully populated.
C11_FailureLeavesPending ==
    [][/\ PassFailed => (~IsIssued(njr') /\ Pending(njr') /\ njr' = njr)
       /\ IsIssued(njr') => StatusPopulated(njr')]_vars

\* a pass failed in step 4: the status is partly written, the request is
\* still Pending and the authority is idle, ready to retry
C11_Witness ==
    /\ recon.pc = "idle"
    /\ ~IsIssued(njr)
    /\ njr.Status.KubernetesVersion # <<>>
    /\ njr.Status.KubeletServerPrivateKey = <<>>

(***************************************************************************)
(* SpecMap: Map.Specs over a Map of clusters.  A string is kept as the     *)
(* sequence of the pieces it was concatenated from; the YAML encoding of a *)
(* versioned cluster is one piece.                                         *)
(***************************************************************************)
\* how a call of Cluster.Specs ends: it encodes the cluster, AddToScheme
\* fails, or runtime.Encode fails
SpecsOutcomes == {"ok", "AddToScheme", "Encode"}

ErrAddToScheme == "could not add to scheme"
ErrCouldNotEncode == "could not encode cluster"

\* runtime.Encode(encoder, clusterObject)
Encode(clusterObject) == <<"yaml", clusterObject>>

\* Cluster.Specs(): [spec, err]
Specs(c, outcome) ==
    IF outcome = "AddToScheme" THEN [spec |-> <<>>, err |-> ErrAddToScheme]
    ELSE IF outcome = "ok" THEN [spec |-> <<Encode(Export(c))>>, err |-> Nil]
    ELSE [spec |-> <<>>, err |-> ErrCouldNotEncode]

\* fmt.Sprintf("---\n%s", clusterSpec)
Document(clusterSpec) == <<"---\n">> \o clusterSpec

\* the loop of a Map.Specs that gives up at the first member that fails
RECURSIVE MapSpecsLoopAborting(_, _, _, _)
MapSpecsLoopAborting(m, order, outcomes, res) ==
    IF order = <<>> THEN [res |-> res, err |-> Nil]
    ELSE LET Encoded(r) ==
                IF r.err # Nil THEN [res |-> <<>>, err |-> r.err]
                ELSE MapSpecsLoopAborting(m, Tail(order), outcomes,
                                          res \o Document(r.spec))
         IN  Encoded(Specs(m[Head(order)], outcomes[Head(order)]))

MapSpecsAborting(m, order, outcomes) == MapSpecsLoopAborting(m, order, outcomes, <<>>)

\* the loop of Map.Specs over the members in the order range yields them
RECURSIVE MapSpecsLoop(_, _, _, _)
MapSpecsLoop(m, order, outcomes, res) ==
    IF order = <<>> THEN res
    ELSE LET Encoded(r) ==
                IF r.err # Nil
                THEN MapSpecsLoop(m, Tail(order), outcomes, res)
                ELSE MapSpecsLoop(m, Tail(order), outcomes, res \o Document(r.spec))
         IN  Encoded(Specs(m[Head(order)], outcomes[Head(order)]))

\* Map.Specs(): [res, err]
MapSpecs(m, order, outcomes) ==
    [res |-> MapSpecsLoop(m, order, outcomes, <<>>), err |-> Nil]

\* the keys of the Maps and the clusters they hold
MapKeys == {"a", "b", "c"}

MapClusters ==
    {NewCluster(clusterName, <<"1", "0", ".", "0", ".", "0", ".", "0", "/", "1", "6">>,
                <<>>, <<>>, "ok", "privA").ret : clusterName \in {"demo", "prod"}}

\* the Maps: any members under any of the keys
Maps == UNION {[keys -> MapClusters] : keys \in SUBSET MapKeys}

\* the orders in which range can yield the keys of a map
Orders(keys) ==
    {order \in [1..Cardinality(keys) -> keys] :
        \A i, j \in 1..Cardinality(keys) : i # j => order[i] # order[j]}

InitMap ==
    /\ clusterMap \in [m : Maps, order : {<<>>}, outcomes : {<<>>}, ret : {NilPtr}]
    /\ cluster = NilPtr
    /\ result = NoCall
    /\ alloc = Unused
    /\ procs = Unused
    /\ njr = Unused
    /\ recon = Unused
    /\ stored = Unused

\* res, err := clusterMap.Specs()
DoMapSpecs ==
    /\ clusterMap.ret = NilPtr
    /\ \E order \in Orders(DOMAIN clusterMap.m),
          outcomes \in [DOMAIN clusterMap.m -> SpecsOutcomes] :
            clusterMap' = [clusterMap EXCEPT !.order = order, !.outcomes = outcomes,
                                             !.ret = MapSpecs(clusterMap.m, order, outcomes)]
    /\ UNCHANGED <<cluster, result, alloc, procs, njr, recon, stored>>

NextMap == DoMapSpecs

SpecMap == InitMap /\ [][NextMap]_vars

\* the members whose Specs() succeeded, in the order range yielded them
Succeeded ==
    SelectSeq(clusterMap.order, LAMBDA k : clusterMap.outcomes[k] = "ok")

\* C12: Map.Specs returns a nil error and, for each member whose Specs()
\* succeeds, one "---" separator line followed by that member's document;
\* a member whose Specs() fails adds nothing and does not end the loop.
C12_MapSpecs ==
    clusterMap.ret # NilPtr =>
        /\ clusterMap.ret.err = Nil
        /\ Len(clusterMap.ret.res) = 2 * Len(Succeeded)
        /\ \A i \in 1..Len(Succeeded) :
            /\ clusterMap.ret.res[2 * i - 1] = "---\n"
            /\ clusterMap.ret.res[2 * i] = Encode(Export(clusterMap.m[Succeeded[i]]))

\* the first member yielded failed, the two after it are in the output
C12_Witness ==
    /\ clusterMap.ret # NilPtr
    /\ Len(clusterMap.order) = 3
    /\ clusterMap.outcomes[clusterMap.order[1]] # "ok"
    /\ Len(clusterMap.ret.res) = 4

(***************************************************************************)
(* Claims on the lookup of a peer (Spec).                                  *)
(***************************************************************************)
\* the peers of the cluster are named name at these positions
Positions(name) == {i \in 1..Len(cluster.VPNPeers) : cluster.VPNPeers[i].Name = name}

\* C13: VPNPeer(name) returns a peer named name and a nil error exactly when
\* the list holds a peer of that name, and the peer is the first of them in
\* list order; otherwise it returns a nil peer and the not-found error.
C13_VPNPeerLookup ==
    result.op = "VPNPeer" =>
        IF Positions(result.args[1]) # {}
        THEN /\ result.err = Nil
             /\ result.ret # NilPtr
             /\ Deref(cluster, result.ret).Name = result.args[1]
             /\ \E i \in Positions(result.args[1]) :
                    /\ \A j \in Positions(result.args[1]) : i <= j
                    /\ Deref(cluster, result.ret) = cluster.VPNPeers[i]
        ELSE /\ result.ret = NilPtr
             /\ result.err = ErrPeerNotFound

\* two peers share the name looked up, at different addresses
C13_Witness ==
    /\ result.op = "VPNPeer"
    /\ Cardinality(Positions(result.args[1])) >= 2
    /\ result.err = Nil

\* C19: the lookup does not change the cluster, and a store through the
\* pointer it returned changes the caller's copy and not the cluster.
C19_ReturnedPeerDetached ==
    [][result'.op \in {"VPNPeer", "WritePeer"} => cluster' = cluster]_vars

\* the caller has changed the Address of its peer; the list still holds the
\* peer of that name at the address it was given
C19_Witness ==
    /\ result.op = "WritePeer"
    /\ Deref(cluster, result.ret).Address = ChangedAddress
    /\ \E i \in Positions(result.args[1]) :
        cluster.VPNPeers[i].Address = ExpectedAddress(cluster.VPNCIDR, i)
    /\ \A i \in 1..Len(cluster.VPNPeers) : cluster.VPNPeers[i].Address # ChangedAddress

(***************************************************************************)
(* Claims on the effect of GenerateVPNPeer (Spec).                         *)
(***************************************************************************)
\* the step is a call of GenerateVPNPeer that returned
GenerateVPNPeerReturned == result'.op = "GenerateVPNPeer" /\ ~result'.panicked

\* C14: a GenerateVPNPeer that returns nil appends exactly one peer, of the
\* name it was given, at the end of VPNPeers; the peers that were there keep
\* their positions and fields, and every other field of the Cluster keeps
\* its value.
C14_GenerateFrame ==
    [][(GenerateVPNPeerReturned /\ result'.err = Nil) =>
        /\ Len(cluster'.VPNPeers) = Len(cluster.VPNPeers) + 1
        /\ SubSeq(cluster'.VPNPeers, 1, Len(cluster.VPNPeers)) = cluster.VPNPeers
        /\ cluster'.VPNPeers[Len(cluster'.VPNPeers)].Name = result'.args[1]
        /\ cluster'.VPNPeers[Len(cluster'.VPNPeers)].PrivateKey = result'.args[2]
        /\ cluster'.Name = cluster.Name
        /\ cluster'.CertificateAuthorities = cluster.CertificateAuthorities
        /\ cluster'.EtcdServer = cluster.EtcdServer
        /\ cluster'.APIServer = cluster.APIServer
        /\ cluster'.StorageClientEndpoints = cluster.StorageClientEndpoints
        /\ cluster'.StoragePeerEndpoints = cluster.StoragePeerEndpoints
        /\ cluster'.VPNCIDR = cluster.VPNCIDR]_vars

\* a third peer was appended behind the two the cluster had
C14_Witness ==
    /\ result.op = "GenerateVPNPeer"
    /\ result.err = Nil
    /\ result.n = 2
    /\ Len(cluster.VPNPeers) = 3

\* no address is left for another peer of the cluster
Exhausted(c) == requestVPNIP(c).err = ErrNotEnoughIPs

\* C17: once a GenerateVPNPeer call has failed with the exhaustion error the
\* cluster stays exhausted, and every later GenerateVPNPeer call on it fails
\* with the exhaustion error whatever name it is given.
C17_ExhaustionPermanent ==
    [][/\ (result'.op = "GenerateVPNPeer" /\ result'.err = ErrNotEnoughIPs)
            => Exhausted(cluster')
       /\ (cluster # NilPtr /\ Exhausted(cluster)) =>
            /\ Exhausted(cluster')
            /\ result'.op = "GenerateVPNPeer" => result'.err = ErrNotEnoughIPs]_vars

\* a call failed with the exhaustion error on a cluster that has looked up a
\* peer since the first failure
C17_Witness ==
    /\ cluster # NilPtr
    /\ Exhausted(cluster)
    /\ result.op = "GenerateVPNPeer"
    /\ result.err = ErrNotEnoughIPs
    /\ result.args[1] = "worker-1"
    /\ Len(cluster.VPNPeers) = 3

\* C18: a GenerateVPNPeer that returns an error, the exhaustion error or the
\* error of the key generation, leaves the Cluster as it was.
C18_ErrorLeavesCluster ==
    [][(GenerateVPNPeerReturned /\ result'.err # Nil) => cluster' = cluster]_vars

\* the key generation failed on a cluster that had an address left
C18_Witness ==
    /\ result.op = "GenerateVPNPeer"
    /\ result.err = ErrKeyGeneration
    /\ Len(cluster.VPNPeers) = result.n
    /\ ~Exhausted(cluster)

(***************************************************************************)
(* A cluster read back from a persisted object that lost a peer            *)
(* (SpecImport): the versioned object of the cluster is written out, one   *)
(* entry of its status.vpnPeers is removed, and the cluster is rebuilt     *)
(* from it by NewClusterFromv1alpha1.                                      *)
(***************************************************************************)
\* the versioned cluster v without the i-th entry of its peer list
DropPeer(v, i) ==
    [v EXCEPT !.Status.VPNPeers = SubSeq(@, 1, i - 1) \o SubSeq(@, i + 1, Len(@))]

\* cluster, _ = NewClusterFromv1alpha1(v), v the exported cluster less a peer:
\* the first thing a process does with the persisted object
DoImportDropped ==
    /\ result.op = "none"
    /\ \E i \in 1..Len(cluster.VPNPeers) :
        /\ cluster' = NewClusterFromv1alpha1(DropPeer(Export(cluster), i))
        /\ result' = [op |-> "NewClusterFromv1alpha1", args |-> <<i>>,
                      n |-> Len(cluster.VPNPeers) - 1, ret |-> NilPtr,
                      err |-> Nil, panicked |-> FALSE]
    /\ UNCHANGED <<alloc, procs, njr, recon, clusterMap, stored>>

\* the VPN CIDRs of the clusters that are persisted
ImportCIDRs ==
    {<<"1", "0", ".", "0", ".", "0", ".", "0", "/", "1", "6">>,
     <<"1", "0", ".", "0", ".", "0", ".", "0", "/", "3", "0">>,
     <<"1", "0", ".", "0", ".", "0", ".", "2", "5", "2", "/", "3", "0">>,
     <<"f", "d", "0", "0", ":", ":", "/", "6", "4">>,
     <<":", ":", "f", "f", "f", "f", ":", "1", "0", ".", "0", ".", "0", ".", "0", "/", "1", "0", "4">>}

\* the clusters NewCluster made for them
ImportClusters ==
    {c \in {NewCluster("demo", vpnCIDR, <<>>, <<>>, "ok", "privA").ret : vpnCIDR \in ImportCIDRs} :
        c # NilPtr}

\* c after k more calls of GenerateVPNPeer
RECURSIVE Grown(_, _)
Grown(c, k) ==
    IF k = 0 THEN c ELSE Grown(GenerateVPNPeer(c, "worker-1", "privB").cluster, k - 1)

\* the clusters whose versioned objects were persisted: two or three peers
PersistedClusters == {Grown(c, k) : c \in ImportClusters, k \in 1..2}

InitImport ==
    /\ cluster \in PersistedClusters
    /\ result = NoCall
    /\ alloc = Unused
    /\ procs = Unused
    /\ njr = Unused
    /\ recon = Unused
    /\ clusterMap = Unused
    /\ stored = Unused

NextImport == DoGenerateVPNPeer \/ DoImportDropped

SpecImport == InitImport /\ [][NextImport]_vars

\* C15: the address GenerateVPNPeer assigns on a cluster of k peers is the
\* network address + (k+1) of the VPN CIDR, whatever addresses the k peers
\* hold: on a cluster rebuilt by NewClusterFromv1alpha1 from a peer list that
\* lost an entry the call succeeds whenever network + (k+1) is inside the CIDR
\* and the key is generated, and the peer it appends is at network + (k+1),
\* also when a peer of the list is at that address already.
C15_AddressFromCount ==
    [][(result'.op = "GenerateVPNPeer") =>
        /\ ~result'.panicked
        /\ (InsideCIDR(cluster.VPNCIDR, Len(cluster.VPNPeers) + 1) /\ result'.args[2] # Nil)
                => result'.err = Nil
        /\ result'.err = Nil =>
                cluster'.VPNPeers[Len(cluster.VPNPeers) + 1].Address =
                    ExpectedAddress(cluster.VPNCIDR, Len(cluster.VPNPeers) + 1)]_vars

\* the peer appended is at an address a peer of the list held already
C15_Witness ==
    /\ result.op = "GenerateVPNPeer"
    /\ result.err = Nil
    /\ Len(cluster.VPNPeers) = result.n + 1
    /\ \E i \in 1..result.n :
            cluster.VPNPeers[i].Address = cluster.VPNPeers[result.n + 1].Address

(***************************************************************************)
(* Optimistic concurrency at the persistence layer (SpecOCC).  The         *)
(* versioned object of one cluster is kept by an object store together     *)
(* with a version token.  Every reconciler mutates the cluster as a        *)
(* read-modify-write: it reads the object and its token, rebuilds the      *)
(* Cluster with NewClusterFromv1alpha1, calls GenerateVPNPeer on it, and   *)
(* writes Export() back; the store accepts the write only when the token   *)
(* is the one that was read, and a refused writer reads again and retries. *)
(***************************************************************************)
Workers == 1..MaxWorkers

\* the persisted object and its token when the cluster was created
Persist(c) == [object |-> Export(c), version |-> 0]

\* the clusters that are persisted at the start
OCCClusters ==
    {NewCluster("demo", vpnCIDR, <<>>, <<>>, "ok", "privA").ret :
        vpnCIDR \in {<<"1", "0", ".", "0", ".", "0", ".", "0", "/", "3", "0">>,
                     <<"1", "0", ".", "0", ".", "0", ".", "0", "/", "1", "6">>}}

\* what wgtypes.GeneratePrivateKey returns to a reconciler: a key or an error
OCCKeyOutcomes == {"privA", Nil}

\* a reconciler between two passes
WorkerIdle == [pc |-> "idle", cluster |-> NilPtr, version |-> 0, retried |-> FALSE]

\* a write that adds the peer the writer generated to the list the store
\* holds, whatever token the writer read
CommitMerging(st, p) ==
    [ok     |-> TRUE,
     stored |-> [object  |-> [st.object EXCEPT !.Status.VPNPeers =
                                Append(@, ExportVPNPeers(p.cluster.VPNPeers)[Len(p.cluster.VPNPeers)])],
                 version |-> st.version + 1]]

\* the store's answer to the write of reconciler p: the object is replaced
\* and the token advanced when the token read is the stored one, and the
\* write is refused otherwise
Commit(st, p) ==
    IF st.version = p.version
    THEN [ok     |-> TRUE,
          stored |-> [object |-> Export(p.cluster), version |-> st.version + 1]]
    ELSE [ok |-> FALSE, stored |-> st]

InitOCC ==
    /\ stored \in {Persist(c) : c \in OCCClusters}
    /\ procs = [w \in Workers |-> WorkerIdle]
    /\ cluster = NilPtr
    /\ result = NoCall
    /\ alloc = Unused
    /\ njr = Unused
    /\ recon = Unused
    /\ clusterMap = Unused

\* read: the object and its token, and the Cluster rebuilt from the object
OCCRead(w) ==
    /\ procs[w].pc \in {"idle", "refused"}
    /\ Len(stored.object.Status.VPNPeers) < MaxPeers
    /\ procs' = [procs EXCEPT ![w] =
                    [pc      |-> "generate",
                     cluster |-> NewClusterFromv1alpha1(stored.object),
                     version |-> stored.version,
                     retried |-> procs[w].pc = "refused"]]
    /\ UNCHANGED <<cluster, result, alloc, njr, recon, clusterMap, stored>>

\* modify: GenerateVPNPeer on the Cluster that was read; on an error the
\* pass ends with nothing to write
OCCGenerate(w) ==
    /\ procs[w].pc = "generate"
    /\ \E key \in OCCKeyOutcomes :
        \E r \in {GenerateVPNPeer(procs[w].cluster, "worker-1", key)} :
            procs' = [procs EXCEPT ![w] =
                        IF r.err # Nil \/ r.panicked
                        THEN WorkerIdle
                        ELSE [@ EXCEPT !.pc = "commit", !.cluster = r.cluster]]
    /\ UNCHANGED <<cluster, result, alloc, njr, recon, clusterMap, stored>>

\* write: accepted, or refused and to be retried from the read
OCCCommit(w) ==
    /\ procs[w].pc = "commit"
    /\ \E r \in {Commit(stored, procs[w])} :
        /\ stored' = r.stored
        /\ procs' = [procs EXCEPT ![w] =
                        IF r.ok THEN [@ EXCEPT !.pc = "idle", !.cluster = NilPtr]
                        ELSE [@ EXCEPT !.pc = "refused", !.cluster = NilPtr]]
    /\ UNCHANGED <<cluster, result, alloc, njr, recon, clusterMap>>

NextOCC == \E w \in Workers : OCCRead(w) \/ OCCGenerate(w) \/ OCCCommit(w)

SpecOCC == InitOCC /\ [][NextOCC]_vars

\* C16: when every GenerateVPNPeer on one cluster is a read-modify-write
\* whose write is accepted only if the stored version token is the one read,
\* and a refused writer reads again and retries, no two peers of any
\* persisted object have the same address, however the reconcilers
\* interleave.
C16_PersistedDistinct ==
    \A i, j \in 1..Len(stored.object.Status.VPNPeers) :
        i # j => stored.object.Status.VPNPeers[i].address
                    # stored.object.Status.VPNPeers[j].address

\* a reconciler whose write was refused has read again and written its peer
\* behind the peer of the reconciler that won
C16_Witness ==
    /\ \E w \in Workers : procs[w].pc = "idle" /\ procs[w].retried
    /\ stored.version >= 2
    /\ Len(stored.object.Status.VPNPeers) >= 3
====
